---- MODULE Spec2Model ----
(***************************************************************************)
(* TensorRT compilers of nebullvm                                          *)
(* (nebullvm/operations/optimizations/compilers/tensor_rt.py).             *)
(*                                                                         *)
(* One compiler instance (PyTorchTensorRTCompiler or ONNXTensorRTCompiler) *)
(* serves a sequence of execute calls.  A call is a sequence of steps in   *)
(* the order of the statements of execute and _compile_model; what the     *)
(* external toolchains answer (scripting, tracing, onnxsim, the ONNX       *)
(* parser, the builders) is chosen nondeterministically at the step that   *)
(* asks.  `events` records the observable effects of the running call in   *)
(* the order they happen.                                                  *)
(*                                                                         *)
(* A second specification, SpecProfile, runs the optimization-profile loop *)
(* of ONNXTensorRTCompiler._compile_model over bounded ModelParams.        *)
(***************************************************************************)
EXTENDS Integers, Sequences, FiniteSets, TLC

VARIABLES
    strategy,           \* the class of the compiler instance
    device,             \* self.device.value
    quantization_type,  \* argument of execute
    input_data,         \* argument of execute: "None" or "DataManager"
    dynamic_info,       \* model_params.dynamic_info is not None
    input_tfms,         \* argument of execute: the caller's pipeline (mutable)
    model,              \* the caller's torch module: dtype, device, training
    compiled_model,     \* self.compiled_model
    model_orig,         \* self.model_orig
    files,              \* which of the conventional files exist on disk
    pc,                 \* position inside execute
    callNo,             \* number of execute calls started
    outcome,            \* how the running/last call ended
    events,             \* effects of the running/last call, in order
    dtype,              \* local of PyTorchTensorRTCompiler.execute
    calibrator,         \* local of PyTorchTensorRTCompiler.execute
    graph,              \* what the local name `model` of _compile_model is bound to
    builder_arg,        \* first argument torch_tensorrt.compile received
    trt_model,          \* value returned by the builder in this call
    onnx_model_path,    \* local of ONNXTensorRTCompiler.execute
    compiled0,          \* self.compiled_model at call entry
    tfms0,              \* input_tfms at call entry
    model0,             \* the caller's module at call entry
    batch_size,         \* model_params.batch_size                (SpecProfile)
    n_inputs,           \* number of declared inputs              (SpecProfile)
    input_idx,          \* position of the zip loop               (SpecProfile)
    input_info,         \* InputInfo of the input just handled    (SpecProfile)
    input_dynamic_info, \* its dynamic dimensions                 (SpecProfile)
    profile             \* set_shape calls made so far: last triple and count

callVars == <<strategy, device, quantization_type, input_data, dynamic_info,
              input_tfms, model, compiled_model, model_orig, files, pc, callNo,
              outcome, events, dtype, calibrator, graph, builder_arg, trt_model,
              onnx_model_path, compiled0, tfms0, model0>>

profileVars == <<batch_size, n_inputs, input_idx, input_info,
                 input_dynamic_info, profile>>

vars == <<callVars, profileVars>>

----------------------------------------------------------------------------
(* Bounds *)

MaxCalls == 2

MaxParserErrors == 2

MaxInputs == 2

MaxRank == 3

----------------------------------------------------------------------------
(* Values *)

None == "None"

QuantizationType == {None, "STATIC", "HALF", "DYNAMIC"}

Devices == {"cpu", "gpu"}

Strategies == {"PyTorchTensorRTCompiler", "ONNXTensorRTCompiler"}

NoArtifact == [kind |-> "None", call |-> 0]

Artifact(n) == [kind |-> "artifact", call |-> n]

ModelPath == "model.onnx"

SimplifiedPath(m) == IF m = "model.onnx" THEN "model.onnx_simplified" ELSE m

CalibrationCache == "calibration.cache"

HalfPrecisionTransformation == "HalfPrecisionTransformation"

Pipelines == {<<>>, <<"OtherTransformation">>}

ModelStates == [dtype : {"float32"}, device : {"cpu", "cuda"}, training : BOOLEAN]

NoArg == [graph |-> "none", dtype |-> "none", copy |-> FALSE]

Running == [status |-> "running", type |-> "", site |-> "", file |-> "", diagnostics |-> {}]

Returned == [status |-> "returned", type |-> "", site |-> "", file |-> "", diagnostics |-> {}]

Raised(type, site) ==
    [status |-> "raised", type |-> type, site |-> site, file |-> "", diagnostics |-> {}]

----------------------------------------------------------------------------
(* TensorRTCompiler.supported_ops *)

supported_ops_cpu_none == [cpu |-> {None}, gpu |-> {None, "STATIC", "HALF"}]

supported_ops == [cpu |-> {}, gpu |-> {None, "STATIC", "HALF"}]

StaticWithoutDataNever(q, d) == FALSE

StaticWithoutData(q, d) == q = "STATIC" /\ d = None

----------------------------------------------------------------------------
(* Frames *)

profileFrame == UNCHANGED profileVars

argFrame == UNCHANGED <<strategy, device, quantization_type, input_data,
                        dynamic_info, callNo, compiled0, tfms0, model0>>

Raise(type, site) ==
    /\ outcome' = Raised(type, site)
    /\ pc' = "done"

Emit(es) == events' = events \o es

----------------------------------------------------------------------------
(* Construction and call entry *)

InitCompiler ==
    /\ strategy \in Strategies
    /\ device = "gpu"
    /\ quantization_type = None
    /\ input_data = None
    /\ dynamic_info = FALSE
    /\ input_tfms = <<>>
    /\ model \in ModelStates
    /\ compiled_model = NoArtifact
    /\ model_orig = None
    /\ files = {}
    /\ pc = "idle"
    /\ callNo = 0
    /\ outcome = Returned
    /\ events = <<>>
    /\ dtype = None
    /\ calibrator = None
    /\ graph = "nn.Module"
    /\ builder_arg = NoArg
    /\ trt_model = NoArtifact
    /\ onnx_model_path = None
    /\ compiled0 = NoArtifact
    /\ tfms0 = <<>>
    /\ model0 = model

InitNoProfile ==
    /\ batch_size = 1
    /\ n_inputs = 0
    /\ input_idx = 0
    /\ input_info = [size |-> <<>>, min_sizes |-> [present |-> FALSE, map |-> <<>>]]
    /\ input_dynamic_info = {}
    /\ profile = [count |-> 0, min |-> <<>>, opt |-> <<>>, max |-> <<>>]

Init == InitCompiler /\ InitNoProfile

\* The orchestrator calls execute(model, model_params, input_tfms,
\* metric_drop_ths, quantization_type, input_data) on the instance.
execute ==
    /\ pc \in {"idle", "done"}
    /\ callNo < MaxCalls
    /\ callNo' = callNo + 1
    /\ device' \in Devices
    /\ quantization_type' \in QuantizationType
    /\ input_data' \in {None, "DataManager"}
    /\ dynamic_info' \in (IF strategy = "ONNXTensorRTCompiler" THEN BOOLEAN ELSE {FALSE})
    /\ input_tfms' \in Pipelines
    /\ tfms0' = input_tfms'
    /\ model' \in (IF strategy = "PyTorchTensorRTCompiler" THEN ModelStates ELSE {model})
    /\ model0' = model'
    /\ compiled0' = compiled_model
    /\ outcome' = Running
    /\ events' = <<>>
    /\ dtype' = None
    /\ calibrator' = None
    /\ graph' = "nn.Module"
    /\ builder_arg' = NoArg
    /\ trt_model' = NoArtifact
    /\ onnx_model_path' = None
    /\ pc' = "gate"
    /\ UNCHANGED <<strategy, compiled_model, model_orig, files>>
    /\ profileFrame

----------------------------------------------------------------------------
(* The opening statements, which the two execute methods share word for    *)
(* word: the capability gate, the static-quantization data requirement,    *)
(* the informational log entry and check_quantization.                     *)

restFrame == UNCHANGED <<input_tfms, model, model_orig, files, dtype, calibrator,
                         graph, builder_arg, trt_model, onnx_model_path>>

\* The gate with the assignment of None left out.
gate_keeps_compiled_model ==
    /\ pc = "gate"
    /\ IF quantization_type \notin supported_ops[device]
       THEN /\ outcome' = Returned
            /\ pc' = "done"
       ELSE /\ pc' = "check_data"
            /\ UNCHANGED outcome
    /\ UNCHANGED <<compiled_model, events>>
    /\ restFrame /\ argFrame /\ profileFrame

\* if quantization_type not in self.supported_ops[self.device.value]:
\*     self.compiled_model = None
\*     return
gate ==
    /\ pc = "gate"
    /\ IF quantization_type \notin supported_ops[device]
       THEN /\ compiled_model' = NoArtifact
            /\ outcome' = Returned
            /\ pc' = "done"
       ELSE /\ pc' = "check_data"
            /\ UNCHANGED <<compiled_model, outcome>>
    /\ UNCHANGED events
    /\ restFrame /\ argFrame /\ profileFrame

\* if quantization_type is QuantizationType.STATIC and input_data is None:
\*     raise ValueError("Input data is required for static quantization.")
check_static ==
    /\ pc = "check_data"
    /\ IF StaticWithoutData(quantization_type, input_data)
       THEN Raise("ValueError", "static_without_data")
       ELSE /\ pc' = "log"
            /\ UNCHANGED outcome
    /\ UNCHANGED <<compiled_model, events>>
    /\ restFrame /\ argFrame /\ profileFrame

\* self.logger.info(f"Optimizing with {self.__class__.__name__} and q_type: ...")
log_info ==
    /\ pc = "log"
    /\ Emit(<<"logger.info">>)
    /\ pc' = "check_quantization"
    /\ UNCHANGED <<compiled_model, outcome>>
    /\ restFrame /\ argFrame /\ profileFrame

\* check_quantization(quantization_type, metric_drop_ths): validation of the
\* accuracy-drop threshold, delegated; it leaves the compiler's state alone.
check_quantization(next) ==
    /\ pc = "check_quantization"
    /\ pc' = next
    /\ UNCHANGED <<compiled_model, outcome, events>>
    /\ restFrame /\ argFrame /\ profileFrame

----------------------------------------------------------------------------
(* PyTorchTensorRTCompiler.execute *)

IsPyTorch == strategy = "PyTorchTensorRTCompiler"

PyTorch_gate == IsPyTorch /\ gate

PyTorch_check_static == IsPyTorch /\ check_static

PyTorch_log_info == IsPyTorch /\ log_info

PyTorch_check_quantization == IsPyTorch /\ check_quantization("precision")

\* if HALF: input_tfms.append(HalfPrecisionTransformation())
PrecisionTfms(q, tfms) ==
    IF q = "HALF" THEN Append(tfms, HalfPrecisionTransformation) ELSE tfms

\* dtype = torch.half | torch.int8 | torch.float32
PrecisionDtype(q) ==
    IF q = "HALF" THEN "torch.half"
    ELSE IF q = "STATIC" THEN "torch.int8"
    ELSE "torch.float32"

\* if quantization_type is HALF: ... elif STATIC: ... else: ...
\* In the STATIC branch input_data is present (check_static), and the train
\* split is read to build the dataset, the dataloader and the calibrator.
PyTorch_precision ==
    /\ IsPyTorch
    /\ pc = "precision"
    /\ dtype' = PrecisionDtype(quantization_type)
    /\ input_tfms' = PrecisionTfms(quantization_type, input_tfms)
    /\ IF quantization_type = "STATIC"
       THEN /\ Emit(<<"input_data.get_split", "DataLoader", "DataLoaderCalibrator">>)
            /\ calibrator' = "DataLoaderCalibrator"
       ELSE UNCHANGED <<events, calibrator>>
    /\ pc' = "input_tensors"
    /\ UNCHANGED <<compiled_model, outcome, model, model_orig, files, graph,
                   builder_arg, trt_model, onnx_model_path>>
    /\ argFrame /\ profileFrame

\* input_tensors = [... for tensor in input_data.get_list(1)[0]]
\* input_data is dereferenced whatever the quantization type: with None it
\* raises AttributeError.
PyTorch_input_tensors ==
    /\ IsPyTorch
    /\ pc = "input_tensors"
    /\ IF input_data = None
       THEN /\ Raise("AttributeError", "input_data.get_list")
            /\ UNCHANGED events
       ELSE /\ Emit(<<"input_data.get_list">>)
            /\ pc' = "cuda_eval"
            /\ UNCHANGED outcome
    /\ UNCHANGED <<compiled_model, input_tfms, model, model_orig, files, dtype,
                   calibrator, graph, builder_arg, trt_model, onnx_model_path>>
    /\ argFrame /\ profileFrame

----------------------------------------------------------------------------
(* PyTorchTensorRTCompiler._compile_model *)

\* model.cuda().eval(): in place, on the module the caller passed.
CudaEval(m) == [m EXCEPT !.device = "cuda", !.training = FALSE]

PyTorch_cuda_eval ==
    /\ IsPyTorch
    /\ pc = "cuda_eval"
    /\ model' = CudaEval(model)
    /\ pc' = "script"
    /\ UNCHANGED <<compiled_model, outcome, events, input_tfms, model_orig, files,
                   dtype, calibrator, graph, builder_arg, trt_model, onnx_model_path>>
    /\ argFrame /\ profileFrame

\* try: torch.jit.script(model)
\* The value torch.jit.script returns is not bound to anything: after a
\* successful scripting the name `model` still refers to the caller's module.
PyTorch_script ==
    /\ IsPyTorch
    /\ pc = "script"
    /\ Emit(<<"torch.jit.script">>)
    /\ \E scripted \in BOOLEAN :
          pc' = IF scripted THEN "compile" ELSE "trace"
    /\ UNCHANGED <<compiled_model, outcome, input_tfms, model, model_orig, files,
                   dtype, calibrator, graph, builder_arg, trt_model, onnx_model_path>>
    /\ argFrame /\ profileFrame

\* except Exception: model = torch.jit.trace(model, input_tensors)
\* A failure of the tracer propagates.
PyTorch_trace ==
    /\ IsPyTorch
    /\ pc = "trace"
    /\ Emit(<<"torch.jit.trace">>)
    /\ \E traced \in BOOLEAN :
          IF traced
          THEN /\ graph' = "traced"
               /\ pc' = "compile"
               /\ UNCHANGED outcome
          ELSE /\ Raise("BackendError", "torch.jit.trace")
               /\ UNCHANGED graph
    /\ UNCHANGED <<compiled_model, input_tfms, model, model_orig, files, dtype,
                   calibrator, builder_arg, trt_model, onnx_model_path>>
    /\ argFrame /\ profileFrame

\* model.half() applied to the object `model` names, without the deep copy.
CompileArgInPlace(g, dt, m) ==
    IF dt = "torch.half"
    THEN [arg |-> [graph |-> g, dtype |-> "float16", copy |-> FALSE],
          caller |-> IF g = "nn.Module" THEN [m EXCEPT !.dtype = "float16"] ELSE m]
    ELSE [arg |-> [graph |-> g, dtype |-> m.dtype, copy |-> FALSE], caller |-> m]

\* model if dtype is not torch.half else copy.deepcopy(model).half()
\* arg: what torch_tensorrt.compile receives; caller: the caller's module after.
CompileArg(g, dt, m) ==
    IF dt = "torch.half"
    THEN [arg |-> [graph |-> g, dtype |-> "float16", copy |-> TRUE], caller |-> m]
    ELSE [arg |-> [graph |-> g, dtype |-> m.dtype, copy |-> FALSE], caller |-> m]

\* with torch_tensorrt.logging.errors(): trt_model = torch_tensorrt.compile(...)
\* With a calibrator the backend may write the calibration cache while it
\* builds; the build may fail, before or after that, and the error propagates.
PyTorch_compile ==
    /\ IsPyTorch
    /\ pc = "compile"
    /\ Emit(<<"torch_tensorrt.compile">>)
    /\ builder_arg' = CompileArg(graph, dtype, model).arg
    /\ model' = CompileArg(graph, dtype, model).caller
    /\ \E writes_cache \in (IF quantization_type = "STATIC" THEN BOOLEAN ELSE {FALSE}) :
          files' = IF writes_cache THEN files \cup {CalibrationCache} ELSE files
    /\ \E built \in BOOLEAN :
          IF built
          THEN /\ trt_model' = Artifact(callNo)
               /\ pc' = "cleanup"
               /\ UNCHANGED outcome
          ELSE /\ Raise("BackendError", "torch_tensorrt.compile")
               /\ UNCHANGED trt_model
    /\ UNCHANGED <<compiled_model, input_tfms, model_orig, dtype, calibrator,
                   graph, onnx_model_path>>
    /\ argFrame /\ profileFrame

\* if os.path.exists("calibration.cache"): os.remove("calibration.cache")
\* return trt_model
PyTorch_cleanup ==
    /\ IsPyTorch
    /\ pc = "cleanup"
    /\ files' = files \ {CalibrationCache}
    /\ pc' = "assign"
    /\ UNCHANGED <<compiled_model, outcome, events, input_tfms, model, model_orig,
                   dtype, calibrator, graph, builder_arg, trt_model, onnx_model_path>>
    /\ argFrame /\ profileFrame

\* self.compiled_model = self._compile_model(...)
PyTorch_assign ==
    /\ IsPyTorch
    /\ pc = "assign"
    /\ compiled_model' = trt_model
    /\ outcome' = Returned
    /\ pc' = "done"
    /\ UNCHANGED <<events, input_tfms, model, model_orig, files, dtype, calibrator,
                   graph, builder_arg, trt_model, onnx_model_path>>
    /\ argFrame /\ profileFrame

----------------------------------------------------------------------------
(* ONNXTensorRTCompiler.execute *)

IsONNX == strategy = "ONNXTensorRTCompiler"

ONNX_gate == IsONNX /\ gate

ONNX_check_static == IsONNX /\ check_static

ONNX_log_info == IsONNX /\ log_info

ONNX_check_quantization == IsONNX /\ check_quantization("train_data")

\* train_input_data = input_data.get_split("train").get_numpy_list(QUANTIZATION_DATA_NUM)
\* input_data is dereferenced whatever the quantization type: with None it
\* raises AttributeError.
ONNX_train_input_data ==
    /\ IsONNX
    /\ pc = "train_data"
    /\ IF input_data = None
       THEN /\ Raise("AttributeError", "input_data.get_split")
            /\ UNCHANGED events
       ELSE /\ Emit(<<"input_data.get_split">>)
            /\ pc' = "simplify"
            /\ UNCHANGED outcome
    /\ UNCHANGED compiled_model
    /\ restFrame /\ argFrame /\ profileFrame

\* What the onnxsim subprocess can do: write the simplified file and exit 0,
\* exit non-zero without writing it (subprocess.run is called without
\* check=True, so this raises nothing), or fail to start (OSError).
SubprocessResults == {"written", "nonzero_exit", "oserror"}

\* try:
\*     import onnxsim
\*     simplified_model = str(model) + "_simplified"
\*     if not Path(simplified_model).is_file(): subprocess.run(cmd, ...)
\*     onnx_model_path = simplified_model
\* except Exception:
\*     onnx_model_path = str(model)
ONNX_simplify ==
    /\ IsONNX
    /\ pc = "simplify"
    /\ \E installed \in BOOLEAN, result \in SubprocessResults :
          IF ~installed
          THEN /\ onnx_model_path' = ModelPath
               /\ Emit(<<"import onnxsim failed">>)
               /\ UNCHANGED files
          ELSE IF SimplifiedPath(ModelPath) \in files
          THEN /\ onnx_model_path' = SimplifiedPath(ModelPath)
               /\ UNCHANGED <<events, files>>
          ELSE /\ Emit(<<"subprocess.run onnxsim">>)
               /\ files' = IF result = "written"
                           THEN files \cup {SimplifiedPath(ModelPath)}
                           ELSE files
               /\ onnx_model_path' = IF result = "oserror"
                                     THEN ModelPath
                                     ELSE SimplifiedPath(ModelPath)
    /\ pc' = "builder"
    /\ UNCHANGED <<compiled_model, outcome, input_tfms, model, model_orig, dtype,
                   calibrator, graph, builder_arg, trt_model>>
    /\ argFrame /\ profileFrame

\* nvidia_logger = trt.Logger(...); builder = trt.Builder(nvidia_logger)
\* network = builder.create_network(...); config = builder.create_builder_config()
ONNX_builder ==
    /\ IsONNX
    /\ pc = "builder"
    /\ Emit(<<"trt.Builder", "create_network", "create_builder_config">>)
    /\ pc' = "memory_pool"
    /\ UNCHANGED <<compiled_model, outcome>>
    /\ restFrame /\ argFrame /\ profileFrame

\* try: config.set_memory_pool_limit(...)
\* except AttributeError: self.logger.warning(...)
ONNX_memory_pool ==
    /\ IsONNX
    /\ pc = "memory_pool"
    /\ \E has_api \in BOOLEAN :
          Emit(IF has_api THEN <<"set_memory_pool_limit">> ELSE <<"logger.warning">>)
    /\ pc' = "quantize"
    /\ UNCHANGED <<compiled_model, outcome>>
    /\ restFrame /\ argFrame /\ profileFrame

\* quantize_tensorrt(quantization_type, model_params, config, input_tfms,
\* input_data): sets the precision flags and, for STATIC, the calibrator on
\* the builder configuration.
quantize_tensorrt(q) ==
    IF q = "STATIC" THEN <<"config.INT8", "config.int8_calibrator">>
    ELSE IF q = "HALF" THEN <<"config.FP16">>
    ELSE <<>>

\* if quantization_type is not None: config = self._quantize_model(...)
ONNX_quantize ==
    /\ IsONNX
    /\ pc = "quantize"
    /\ IF quantization_type # None
       THEN Emit(<<"_quantize_model">> \o quantize_tensorrt(quantization_type))
       ELSE UNCHANGED events
    /\ pc' = "parse"
    /\ UNCHANGED <<compiled_model, outcome>>
    /\ restFrame /\ argFrame /\ profileFrame

----------------------------------------------------------------------------
(* ONNXTensorRTCompiler._compile_model *)

\* The original model file is on disk; the simplified one only once written.
FileExists(path) == path = ModelPath \/ path \in files

\* raise ValueError(f"Errors occurred while processing the ONNX file at
\* {onnx_model_path}"): the message carries the path and nothing the parser
\* reported.
ParseError(path, parser_errors) ==
    [status |-> "raised", type |-> "ValueError", site |-> "parse_from_file",
     file |-> path, diagnostics |-> {}]

\* for idx in range(parser.num_errors): self.logger.debug(parser.get_error(idx))
DebugLog(num_errors) == [i \in 1..num_errors |-> "logger.debug parser error"]

\* parser = trt.OnnxParser(network, nvidia_logger)
\* success = parser.parse_from_file(onnx_model_path)
\* if not success: log every parser error at debug level, raise ValueError
\* A file that does not exist cannot be parsed; one that exists may be malformed.
ONNX_parse ==
    /\ IsONNX
    /\ pc = "parse"
    /\ \E parses \in BOOLEAN, num_errors \in 0..MaxParserErrors :
          IF parses /\ FileExists(onnx_model_path)
          THEN /\ Emit(<<"parse_from_file">>)
               /\ pc' = "profile"
               /\ UNCHANGED outcome
          ELSE /\ Emit(<<"parse_from_file">> \o DebugLog(num_errors))
               /\ outcome' = ParseError(onnx_model_path, 1..num_errors)
               /\ pc' = "done"
    /\ UNCHANGED compiled_model
    /\ restFrame /\ argFrame /\ profileFrame

\* if model_params.dynamic_info is not None:
\*     profile = builder.create_optimization_profile(); set_shape per input;
\*     config.add_optimization_profile(profile)
\* (the shapes are the subject of SpecProfile)
ONNX_profile ==
    /\ IsONNX
    /\ pc = "profile"
    /\ IF dynamic_info
       THEN Emit(<<"create_optimization_profile", "add_optimization_profile">>)
       ELSE UNCHANGED events
    /\ pc' = "build"
    /\ UNCHANGED <<compiled_model, outcome>>
    /\ restFrame /\ argFrame /\ profileFrame

\* return builder.build_serialized_network(network, config)
\* A failure of the builder propagates.
ONNX_build ==
    /\ IsONNX
    /\ pc = "build"
    /\ Emit(<<"build_serialized_network">>)
    /\ \E built \in BOOLEAN :
          IF built
          THEN /\ trt_model' = Artifact(callNo)
               /\ pc' = "assign"
               /\ UNCHANGED outcome
          ELSE /\ Raise("BackendError", "build_serialized_network")
               /\ UNCHANGED trt_model
    /\ UNCHANGED <<compiled_model, input_tfms, model, model_orig, files, dtype,
                   calibrator, graph, builder_arg, onnx_model_path>>
    /\ argFrame /\ profileFrame

\* self.compiled_model = self._compile_model(...)
\* self.model_orig = onnx_model_path
ONNX_assign ==
    /\ IsONNX
    /\ pc = "assign"
    /\ compiled_model' = trt_model
    /\ model_orig' = onnx_model_path
    /\ outcome' = Returned
    /\ pc' = "done"
    /\ UNCHANGED <<events, input_tfms, model, files, dtype, calibrator, graph,
                   builder_arg, trt_model, onnx_model_path>>
    /\ argFrame /\ profileFrame

----------------------------------------------------------------------------
(* The compilers *)

Next ==
    \/ execute
    \/ PyTorch_gate
    \/ PyTorch_check_static
    \/ PyTorch_log_info
    \/ PyTorch_check_quantization
    \/ PyTorch_precision
    \/ PyTorch_input_tensors
    \/ PyTorch_cuda_eval
    \/ PyTorch_script
    \/ PyTorch_trace
    \/ PyTorch_compile
    \/ PyTorch_cleanup
    \/ PyTorch_assign
    \/ ONNX_gate
    \/ ONNX_check_static
    \/ ONNX_log_info
    \/ ONNX_check_quantization
    \/ ONNX_train_input_data
    \/ ONNX_simplify
    \/ ONNX_builder
    \/ ONNX_memory_pool
    \/ ONNX_quantize
    \/ ONNX_parse
    \/ ONNX_profile
    \/ ONNX_build
    \/ ONNX_assign

Spec == Init /\ [][Next]_vars

----------------------------------------------------------------------------
(* The optimization profile of ONNXTensorRTCompiler._compile_model         *)
(* (model_params.dynamic_info is not None).  The zip runs over the input   *)
(* names, dynamic_info.inputs and input_infos, one entry each per declared *)
(* input; a shape is a tuple whose first entry is dimension 0.             *)

BatchSizes == {1, 8}

MinSizeValues == {32}

\* InputInfo.size: the static sizes of dimensions 1.., e.g. [3, 224, 224].
Sizes == {[k \in 1..r |-> IF k = 1 THEN 3 ELSE 224] : r \in 1..MaxRank}

\* InputInfo.min_sizes: None, or a dict from dimension (1..) to minimum size.
MinSizes(rank) ==
    {[present |-> FALSE, map |-> <<>>]} \cup
    {[present |-> TRUE, map |-> m] :
        m \in UNION {[D -> MinSizeValues] : D \in SUBSET (1..rank)}}

\* min(a, b)
Min(a, b) == IF a <= b THEN a ELSE b

\* (input_info.min_sizes or {})
OrEmptyDict(min_sizes) == IF min_sizes.present THEN min_sizes.map ELSE <<>>

\* dict.get(key, default)
Get(d, key, default) == IF key \in DOMAIN d THEN d[key] ELSE default

\* The minimum shape with enumerate's index i used where the code uses i + 1.
MinShapeIndexOff(bs, info, dyn) ==
    << IF 0 \in dyn THEN Min(bs, 1) ELSE bs >> \o
    [k \in 1..Len(info.size) |->
        IF (k - 1) \notin dyn
        THEN info.size[k]
        ELSE Get(OrEmptyDict(info.min_sizes), k - 1, 1)]

\* (min(model_params.batch_size, 1) if 0 in input_dynamic_info
\*      else model_params.batch_size,
\*  *(shape if i + 1 not in input_dynamic_info
\*      else (input_info.min_sizes or {}).get(i + 1, 1)
\*      for i, shape in enumerate(input_info.size)))
\* Position k of info.size is enumerate's i = k - 1, so i + 1 = k.
MinShape(bs, info, dyn) ==
    << IF 0 \in dyn THEN Min(bs, 1) ELSE bs >> \o
    [k \in 1..Len(info.size) |->
        IF k \notin dyn
        THEN info.size[k]
        ELSE Get(OrEmptyDict(info.min_sizes), k, 1)]

\* (model_params.batch_size, *input_info.size)
OptShape(bs, info) == <<bs>> \o info.size

InitProfile ==
    /\ InitCompiler
    /\ strategy = "ONNXTensorRTCompiler"
    /\ model = [dtype |-> "float32", device |-> "cpu", training |-> FALSE]
    /\ batch_size \in BatchSizes
    /\ n_inputs \in 1..MaxInputs
    /\ input_idx = 0
    /\ input_info = [size |-> <<>>, min_sizes |-> [present |-> FALSE, map |-> <<>>]]
    /\ input_dynamic_info = {}
    /\ profile = [count |-> 0, min |-> <<>>, opt |-> <<>>, max |-> <<>>]

\* One iteration of the zip loop: profile.set_shape(input_name, min, opt, max)
set_shape ==
    /\ input_idx < n_inputs
    /\ \E size \in Sizes :
       \E min_sizes \in MinSizes(Len(size)), dyn \in SUBSET (0..Len(size)) :
          /\ input_info' = [size |-> size, min_sizes |-> min_sizes]
          /\ input_dynamic_info' = dyn
          /\ profile' = [count |-> profile.count + 1,
                         min |-> MinShape(batch_size, input_info', dyn),
                         opt |-> OptShape(batch_size, input_info'),
                         max |-> OptShape(batch_size, input_info')]
    /\ input_idx' = input_idx + 1
    /\ UNCHANGED <<batch_size, n_inputs>>
    /\ UNCHANGED callVars

NextProfile == set_shape

SpecProfile == InitProfile /\ [][NextProfile]_vars

----------------------------------------------------------------------------
(* Properties *)

\* The pairs of the support table, written out: gpu with None, STATIC or HALF.
InTable == device = "gpu" /\ quantization_type \in {None, "STATIC", "HALF"}

Called == callNo > 0

Ended == Called /\ pc = "done"

ReadsInputData == \E i \in 1..Len(events) :
                     events[i] \in {"input_data.get_split", "input_data.get_list"}

Happened(e) == \E i \in 1..Len(events) : events[i] = e

\* C1: a call whose (device, quantization_type) pair is not in the support
\* table never gets past the gate; it ends by returning, with compiled_model
\* None, nothing logged, input_data not read, input_tfms and the caller's model
\* as they were, no subprocess and no builder, network or config created.
C1_UnsupportedIsAbsentBeforeAnyWork ==
    (Called /\ ~InTable) =>
        /\ pc \in {"gate", "done"}
        /\ events = <<>>
        /\ input_tfms = tfms0
        /\ model = model0
        /\ builder_arg = NoArg
        /\ trt_model = NoArtifact
        /\ pc = "done" => (compiled_model = NoArtifact /\ outcome = Returned)

\* C1 witness: an unsupported call (DYNAMIC on gpu) has ended and replaced the
\* artifact of the call before it by None.
C1_Witness ==
    /\ Ended /\ device = "gpu" /\ quantization_type = "DYNAMIC"
    /\ compiled0 = Artifact(1)
    /\ compiled_model = NoArtifact

\* C2: after a call with STATIC on a supported device the calibration cache
\* does not exist, however the call ended.
C2_NoCalibrationCacheAfterStaticCall ==
    (Ended /\ InTable /\ quantization_type = "STATIC") =>
        CalibrationCache \notin files

\* C3: STATIC without input_data on a supported device raises ValueError at
\* the data check: nothing is logged or read, no calibrator, subprocess or
\* builder exists, and compiled_model and input_tfms are as before the call.
C3_StaticWithoutDataFailsFast ==
    (Called /\ InTable /\ quantization_type = "STATIC" /\ input_data = None) =>
        /\ pc \in {"gate", "check_data", "done"}
        /\ events = <<>>
        /\ calibrator = None
        /\ builder_arg = NoArg
        /\ trt_model = NoArtifact
        /\ compiled_model = compiled0
        /\ input_tfms = tfms0
        /\ pc = "done" => (outcome.status = "raised" /\ outcome.type = "ValueError")

\* C3 witness: such a call has raised, on an instance that holds the artifact
\* of an earlier call.
C3_Witness ==
    /\ Ended /\ InTable /\ quantization_type = "STATIC" /\ input_data = None
    /\ outcome = Raised("ValueError", "static_without_data")
    /\ compiled0 = Artifact(1)

\* C4 as stated: every call ends with compiled_model the artifact built by
\* this call when the pair is supported, and None when it is not.
C4_ExactlyOneOutcomePerCall ==
    Ended => compiled_model = (IF InTable THEN Artifact(callNo) ELSE NoArtifact)

\* C4 amended: a call that returns ends with compiled_model the value the
\* builder returned in this call when the pair is supported and None when it
\* is not; a call that raises leaves compiled_model as it was at entry.
C4_ExactlyOneOutcomePerReturn ==
    Ended =>
        /\ outcome.status \in {"returned", "raised"}
        /\ outcome.status = "returned" =>
              compiled_model = (IF InTable THEN Artifact(callNo) ELSE NoArtifact)
        /\ outcome.status = "raised" => compiled_model = compiled0

\* C4 witness: the second call on an instance returned its own artifact in
\* place of the first call's.
C4_Witness ==
    /\ Ended /\ InTable /\ outcome = Returned
    /\ compiled0 = Artifact(1)
    /\ compiled_model = Artifact(2)

\* C6 as stated (native-graph strategy): HALF appends exactly one
\* HalfPrecisionTransformation, no other mode appends, and the caller's model
\* is unmodified after the call.
C6_HalfAppendsOnceModelUnmodified ==
    (IsPyTorch /\ Ended /\ InTable) =>
        /\ input_tfms = (IF quantization_type = "HALF"
                         THEN Append(tfms0, HalfPrecisionTransformation)
                         ELSE tfms0)
        /\ (quantization_type = "HALF" /\ outcome = Returned) => model = model0

\* C6 amended: HALF appends exactly one HalfPrecisionTransformation and no
\* other mode appends; the caller's model is never cast (its dtype is the one
\* it came with) and under HALF the builder receives a float16 deep copy; but
\* a call that reaches _compile_model has moved the caller's model to the GPU
\* and put it in eval mode, in place.
C6_HalfAppendsOnceModelUncast ==
    (IsPyTorch /\ Ended /\ InTable) =>
        /\ input_tfms = (IF quantization_type = "HALF"
                         THEN Append(tfms0, HalfPrecisionTransformation)
                         ELSE tfms0)
        /\ model.dtype = model0.dtype
        /\ model \in {model0, [model0 EXCEPT !.device = "cuda", !.training = FALSE]}
        /\ Happened("torch.jit.script") =>
              model = [model0 EXCEPT !.device = "cuda", !.training = FALSE]
        /\ (builder_arg # NoArg /\ quantization_type = "HALF") =>
              (builder_arg.copy /\ builder_arg.dtype = "float16")
        /\ (builder_arg # NoArg /\ quantization_type # "HALF") => ~builder_arg.copy

\* C6 witness: a HALF call on a scriptable model returned; the pipeline grew
\* by one and the builder got the float16 copy of the caller's module.
C6_Witness ==
    /\ IsPyTorch /\ Ended /\ InTable /\ quantization_type = "HALF"
    /\ outcome = Returned
    /\ tfms0 = <<"OtherTransformation">>
    /\ input_tfms = <<"OtherTransformation", HalfPrecisionTransformation>>
    /\ builder_arg = [graph |-> "nn.Module", dtype |-> "float16", copy |-> TRUE]
    /\ model.dtype = "float32"

\* C7: the simplified sibling path is the parse source (and model_orig) only
\* when a simplified file exists; otherwise the original file is parsed.
C7_SimplifiedPathOnlyIfFileExists ==
    /\ onnx_model_path = SimplifiedPath(ModelPath) =>
          SimplifiedPath(ModelPath) \in files
    /\ model_orig = SimplifiedPath(ModelPath) =>
          SimplifiedPath(ModelPath) \in files

\* C8: a parse failure raises ValueError naming the parsed file and carrying
\* at least one parser diagnostic; no profile is built, the builder is not
\* invoked and compiled_model is not set by the call.
C8_ParseFailureCarriesDiagnostics ==
    (Ended /\ outcome.site = "parse_from_file") =>
        /\ outcome.type = "ValueError"
        /\ outcome.file = onnx_model_path
        /\ outcome.diagnostics # {}
        /\ ~Happened("create_optimization_profile")
        /\ ~Happened("build_serialized_network")
        /\ compiled_model = compiled0

\* C9: on a supported device with quantization None or HALF, input_data is
\* never read, and its absence makes no call fail.
C9_InputDataReadOnlyForStatic ==
    (Called /\ InTable /\ quantization_type \in {None, "HALF"}) =>
        /\ ~ReadsInputData
        /\ outcome.type # "AttributeError"

\* C10: scripting is tried first, tracing exactly when scripting failed, and
\* the builder receives the scripted graph or the traced one, never the raw
\* module.
C10_BuilderReceivesScriptedOrTraced ==
    (IsPyTorch /\ builder_arg # NoArg) =>
        /\ Happened("torch.jit.script")
        /\ builder_arg.graph \in {"scripted", "traced"}
        /\ builder_arg.graph = "traced" <=> Happened("torch.jit.trace")

\* C5: every set_shape call of the profile has opt = max = (batch_size,
\* *size); min[0] = min(batch_size, 1) if dimension 0 is dynamic, else
\* batch_size; for k >= 1, min[k] is the declared minimum of dimension k
\* (1 if none is declared) if k is dynamic, else the static size; and there
\* is one call per declared input.  (Tuples are 1-based: dimension k is at
\* position k + 1.)
C5_ProfileShapes ==
    /\ profile.count = input_idx
    /\ profile.count <= n_inputs
    /\ profile.count > 0 =>
        LET size == input_info.size
            ms   == input_info.min_sizes
            dyn  == input_dynamic_info
        IN  /\ profile.opt = <<batch_size>> \o size
            /\ profile.max = <<batch_size>> \o size
            /\ Len(profile.min) = Len(size) + 1
            /\ profile.min[1] = (IF 0 \in dyn
                                 THEN (IF batch_size < 1 THEN batch_size ELSE 1)
                                 ELSE batch_size)
            /\ \A k \in 1..Len(size) :
                  profile.min[k + 1] =
                     (IF k \in dyn
                      THEN (IF ms.present /\ k \in DOMAIN ms.map THEN ms.map[k] ELSE 1)
                      ELSE size[k])
            /\ (batch_size = 8 /\ size = <<3, 224, 224>> /\ dyn = {0}) =>
                  (profile.min = <<1, 3, 224, 224>> /\ profile.opt = <<8, 3, 224, 224>>)
            /\ (batch_size = 8 /\ size = <<3, 224, 224>> /\ dyn = {0, 2}
                  /\ ms.present /\ 2 \in DOMAIN ms.map /\ ms.map[2] = 32) =>
                  (profile.min = <<1, 3, 32, 224>> /\ profile.max = <<8, 3, 224, 224>>)

\* C5 witness: the last of two inputs, batch size 8, size [3, 224, 224],
\* dimensions 0 and 2 dynamic, minimum 32 declared for dimension 2 only.
C5_Witness ==
    /\ n_inputs = 2 /\ profile.count = 2
    /\ batch_size = 8
    /\ input_info = [size |-> <<3, 224, 224>>,
                     min_sizes |-> [present |-> TRUE, map |-> (2 :> 32)]]
    /\ input_dynamic_info = {0, 2}
    /\ profile.min = <<1, 3, 32, 224>>
    /\ profile.opt = <<8, 3, 224, 224>>
    /\ profile.max = <<8, 3, 224, 224>>

====
